---- MODULE Spec2Model ----
(***************************************************************************)
(* A model of the document analyzer's privacy core: the regular-expression *)
(* sanitizer of src/src/document_processor.py, the analysis backend of     *)
(* src/src/ollama_analyzer.py as far as the sanitizer's output feeds it,   *)
(* and the local artifact store of src/src/privacy_utils.py.               *)
(*                                                                         *)
(* A text is a sequence of one-character strings.  Regular expressions are *)
(* data (a sequence of items) matched by a backtracking matcher with the   *)
(* priorities of Python's re module: greedy repetitions, alternatives in   *)
(* the order written, leftmost non-overlapping scan.                       *)
(***************************************************************************)
EXTENDS Integers, Sequences, FiniteSets, TLC

VARIABLES
    doc,        \* the text extracted from the uploaded document
    fname,      \* the uploaded file's name
    now,        \* the clock, in ticks; TicksPerSecond ticks make a second
    calls,      \* the _sanitize_content calls made so far, in order
    data,       \* process_document's document_data, or NoData
    analysis,   \* analyze_document's AnalysisResult, or NoAnalysis
    store,      \* the store's files: path -> what the file holds
    saves,      \* the save calls made so far, in order: path and returned key
    raised,     \* what the last operation raised ("" when it returned)
    page,       \* what main has rendered of the analysis, or NoPage
    outcome,    \* what the last listing or sweep of the store returned
    processor,  \* the DocumentProcessor instance's attributes
    uploads,    \* the uploaded files given to process_multiple_documents
    batch,      \* process_multiple_documents' loop: position, list built, log
    tmpfiles    \* the temporary files that exist, by the upload they hold

vars == <<doc, fname, now, calls, data, analysis, store, saves, raised, page, outcome,
          processor, uploads, batch, tmpfiles>>
\* what only process_multiple_documents works on
batchvars == <<processor, uploads, batch, tmpfiles>>

----------------------------------------------------------------------------
(* Characters and the character classes of the patterns *)

Digit == {"0","1","2","3","4","5","6","7","8","9"}
Upper == {"A","B","C","D","E","F","G","H","I","J","K","L","M","N","O","P","Q","R","S","T","U","V","W","X","Y","Z"}
Lower == {"a","b","c","d","e","f","g","h","i","j","k","l","m","n","o","p","q","r","s","t","u","v","w","x","y","z"}
\* \w and \s, restricted to ASCII
WordChar == Upper \cup Lower \cup Digit \cup {"_"}
Space == {" ", "\t", "\n", "\r", "\f"}
\* [\s-] and [-.]
SpaceOrDash == Space \cup {"-"}
DashOrDot == {"-", "."}
\* [A-Za-z0-9._%+-], [A-Za-z0-9.-], [A-Z|a-z] and [A-Za-z\s]
EmailLocal == Upper \cup Lower \cup Digit \cup {".", "_", "%", "+", "-"}
EmailDomain == Upper \cup Lower \cup Digit \cup {".", "-"}
EmailTld == Upper \cup Lower \cup {"|"}
LetterOrSpace == Upper \cup Lower \cup Space

----------------------------------------------------------------------------
(* Regular expressions as data *)

\* \b
WB == [t |-> "wb", cls |-> {}, lo |-> 0, hi |-> 0, lits |-> <<>>]
\* a greedy repetition cls{lo,hi}; hi = -1 is "no upper limit"
Rep(cls, lo, hi) == [t |-> "rep", cls |-> cls, lo |-> lo, hi |-> hi, lits |-> <<>>]
\* (?:lit1|lit2|...), tried in the order written
Alt(lits) == [t |-> "alt", cls |-> {}, lo |-> 0, hi |-> 0, lits |-> lits]

\* \b matches at position i (between s[i-1] and s[i]) iff exactly one side is a
\* word character; outside the text counts as a non-word character.
IsWordAt(s, i) == i >= 1 /\ i <= Len(s) /\ s[i] \in WordChar
WordBoundary(s, i) == IsWordAt(s, i - 1) # IsWordAt(s, i)

Max(S) == CHOOSE x \in S : \A y \in S : y <= x
Min(S) == CHOOSE x \in S : \A y \in S : x <= y

\* The number of consecutive characters of cls from position i on, at most hi
\* when hi >= 0.
Run(s, i, cls, hi) ==
    LET limit == IF hi < 0 \/ hi > Len(s) + 1 - i THEN Len(s) + 1 - i ELSE hi
    IN  Max({n \in 0..limit : \A j \in i..(i + n - 1) : s[j] \in cls})

\* lit occurs in s at position i
LitAt(s, i, lit) ==
    /\ i + Len(lit) - 1 <= Len(s)
    /\ \A j \in 1..Len(lit) : s[i + j - 1] = lit[j]

\* The backtracking matcher: the position after the first match (in priority
\* order) of items k.. of re at position i of s, or 0 when there is none.
RECURSIVE MatchFrom(_, _, _, _)
\* greedy: of the repetition counts after which the rest of re matches, the
\* largest (the matcher tries the longest repetition first and gives back one
\* character at a time)
TryRep(re, s, i, k, n) ==
    LET good == {m \in re[k].lo..n : MatchFrom(re, s, i + m, k + 1) # 0}
    IN  IF good = {} THEN 0 ELSE MatchFrom(re, s, i + Max(good), k + 1)

\* the first alternative, in the order written, after which the rest matches
TryAlt(re, s, i, k) ==
    LET lits == re[k].lits
        good == {a \in 1..Len(lits) :
                    /\ LitAt(s, i, lits[a])
                    /\ MatchFrom(re, s, i + Len(lits[a]), k + 1) # 0}
    IN  IF good = {} THEN 0
        ELSE MatchFrom(re, s, i + Len(lits[Min(good)]), k + 1)

MatchFrom(re, s, i, k) ==
    IF k > Len(re) THEN i
    ELSE IF re[k].t = "wb" THEN
        IF WordBoundary(s, i) THEN MatchFrom(re, s, i, k + 1) ELSE 0
    ELSE IF re[k].t = "rep" THEN
        TryRep(re, s, i, k, Run(s, i, re[k].cls, re[k].hi))
    ELSE TryAlt(re, s, i, k)

\* For every position of s, where the match of re starting there ends (0: no
\* match starts there).
MatchEnds(re, s) == [j \in 1..Len(s) |-> MatchFrom(re, s, j, 1)]

\* re.findall(pattern, s): the matched substrings, leftmost first, not
\* overlapping (none of the patterns has a group or matches the empty string)
RECURSIVE FindAllFrom(_, _, _)
FindAllFrom(ends, s, i) ==
    LET starts == {j \in i..Len(s) : ends[j] # 0}
    IN  IF starts = {} THEN <<>>
        ELSE <<SubSeq(s, Min(starts), ends[Min(starts)] - 1)>>
                 \o FindAllFrom(ends, s, ends[Min(starts)])

FindAll(re, s) == FindAllFrom(MatchEnds(re, s), s, 1)

\* re.subn(pattern, repl, s): the text with every match replaced, and the
\* number of replacements made
RECURSIVE SubnFrom(_, _, _, _)
SubnFrom(ends, repl, s, i) ==
    LET starts == {j \in i..Len(s) : ends[j] # 0}
    IN  IF starts = {} THEN [text |-> SubSeq(s, i, Len(s)), n |-> 0]
        ELSE LET r == SubnFrom(ends, repl, s, ends[Min(starts)])
             IN  [text |-> SubSeq(s, i, Min(starts) - 1) \o repl \o r.text,
                  n |-> r.n + 1]

Subn(re, repl, s) == SubnFrom(MatchEnds(re, s), repl, s, 1)

\* re.sub(pattern, repl, s)
Sub(re, repl, s) == Subn(re, repl, s).text

----------------------------------------------------------------------------
(* The patterns of _sanitize_content *)

Categories == {"emails", "phone_numbers", "credit_cards", "ssns", "names", "addresses"}

StreetSuffixes ==
    << <<"S","t","r","e","e","t">>, <<"S","t">>,
       <<"A","v","e","n","u","e">>, <<"A","v","e">>,
       <<"R","o","a","d">>, <<"R","d">>,
       <<"B","o","u","l","e","v","a","r","d">>, <<"B","l","v","d">>,
       <<"D","r","i","v","e">>, <<"D","r">>,
       <<"L","a","n","e">>, <<"L","n">> >>

CreditCardRe ==
    <<WB, Rep(Digit, 4, 4), Rep(SpaceOrDash, 0, 1), Rep(Digit, 4, 4),
      Rep(SpaceOrDash, 0, 1), Rep(Digit, 4, 4), Rep(SpaceOrDash, 0, 1),
      Rep(Digit, 4, 4), WB>>
PhoneRe ==
    <<WB, Rep(Digit, 3, 3), Rep(DashOrDot, 0, 1), Rep(Digit, 3, 3),
      Rep(DashOrDot, 0, 1), Rep(Digit, 4, 4), WB>>
EmailRe ==
    <<WB, Rep(EmailLocal, 1, -1), Rep({"@"}, 1, 1), Rep(EmailDomain, 1, -1),
      Rep({"."}, 1, 1), Rep(EmailTld, 2, -1), WB>>
SsnRe ==
    <<WB, Rep(Digit, 3, 3), Rep(DashOrDot, 0, 1), Rep(Digit, 2, 2),
      Rep(DashOrDot, 0, 1), Rep(Digit, 4, 4), WB>>
NameRe ==
    <<WB, Rep(Upper, 1, 1), Rep(Lower, 1, -1), Rep({" "}, 1, 1),
      Rep(Upper, 1, 1), Rep(Lower, 1, -1), WB>>
AddressRe ==
    <<WB, Rep(Digit, 1, -1), Rep(Space, 1, -1), Rep(LetterOrSpace, 1, -1),
      Alt(StreetSuffixes), WB>>

\* CreditCardPattern with a replacement the name rule matches
CreditCardPatternReadableToken ==
    [re |-> CreditCardRe, category |-> "credit_cards",
     replacement |-> <<"[","C","r","e","d","i","t"," ","C","a","r","d","]">>]
CreditCardPattern ==
    [re |-> CreditCardRe, category |-> "credit_cards",
     replacement |-> <<"[","C","R","E","D","I","T","_","C","A","R","D","]">>]
PhonePattern ==
    [re |-> PhoneRe, category |-> "phone_numbers",
     replacement |-> <<"[","P","H","O","N","E","]">>]
\* EmailPattern with a longer token
EmailPatternLongToken ==
    [re |-> EmailRe, category |-> "emails",
     replacement |-> <<"[","E","M","A","I","L","_","R","E","D","A","C","T","E","D","]">>]
EmailPattern ==
    [re |-> EmailRe, category |-> "emails",
     replacement |-> <<"[","E","M","A","I","L","]">>]
SsnPattern ==
    [re |-> SsnRe, category |-> "ssns",
     replacement |-> <<"[","S","S","N","]">>]
\* NamePattern with a replacement the name rule itself matches
NamePatternReadableToken ==
    [re |-> NameRe, category |-> "names",
     replacement |-> <<"[","N","a","m","e"," ","R","e","d","a","c","t","e","d","]">>]
\* NamePattern matching every capitalized word by itself
NamePatternSingleWord ==
    [re |-> <<WB, Rep(Upper, 1, 1), Rep(Lower, 1, -1), WB>>, category |-> "names",
     replacement |-> <<"[","N","A","M","E","]">>]
NamePattern ==
    [re |-> NameRe, category |-> "names",
     replacement |-> <<"[","N","A","M","E","]">>]
AddressPattern ==
    [re |-> AddressRe, category |-> "addresses",
     replacement |-> <<"[","A","D","D","R","E","S","S","]">>]

\* Patterns with the e-mail rule missing from the high list
PatternsHighWithoutEmail(level) ==
    IF level = "low" THEN <<CreditCardPattern, PhonePattern>>
    ELSE IF level = "medium" THEN <<EmailPattern, PhonePattern, CreditCardPattern>>
    ELSE IF level = "high" THEN
        <<PhonePattern, CreditCardPattern, SsnPattern, NamePattern, AddressPattern>>
    ELSE <<>>

\* Patterns with the e-mail rule in the low list too
PatternsLowWithEmail(level) ==
    IF level = "low" THEN <<EmailPattern, CreditCardPattern, PhonePattern>>
    ELSE IF level = "medium" THEN <<EmailPattern, PhonePattern, CreditCardPattern>>
    ELSE IF level = "high" THEN
        <<EmailPattern, PhonePattern, CreditCardPattern, SsnPattern,
          NamePattern, AddressPattern>>
    ELSE <<>>

\* the if / elif / else chain that picks the level's pattern list
Patterns(level) ==
    IF level = "low" THEN <<CreditCardPattern, PhonePattern>>
    ELSE IF level = "medium" THEN <<EmailPattern, PhonePattern, CreditCardPattern>>
    ELSE IF level = "high" THEN
        <<EmailPattern, PhonePattern, CreditCardPattern, SsnPattern,
          NamePattern, AddressPattern>>
    ELSE <<>>

----------------------------------------------------------------------------
(* _sanitize_content *)

\* removed_items as the function builds it before the loop
InitialRemovedItems == [c \in Categories |-> 0]

\* ApplyPattern with removed_items shared between calls and added to: the
\* count starts from what the previous call left
ApplyPatternSharedCounts(st, p) ==
    LET matches == FindAll(p.re, st.content)
        subbed == Subn(p.re, p.replacement, st.content)
        before == IF calls = <<>> THEN 0
                  ELSE calls[Len(calls)].out.info.removed_items[p.category]
    IN  [content |-> subbed.text,
         removed_items |-> [st.removed_items EXCEPT ![p.category] = before + Len(matches)],
         applied |-> Append(st.applied, p.category),
         subs |-> [st.subs EXCEPT ![p.category] = @ + subbed.n],
         matched |-> st.matched \cup {matches[j] : j \in 1..Len(matches)}]

\* ApplyPattern counting the matches after the substitution
ApplyPatternCountAfterSub(st, p) ==
    LET subbed == Subn(p.re, p.replacement, st.content)
        matches == FindAll(p.re, subbed.text)
    IN  [content |-> subbed.text,
         removed_items |-> [st.removed_items EXCEPT ![p.category] = Len(matches)],
         applied |-> Append(st.applied, p.category),
         subs |-> [st.subs EXCEPT ![p.category] = @ + subbed.n],
         matched |-> st.matched \cup {matches[j] : j \in 1..Len(matches)}]

\* ApplyPattern counting the pieces the matches cut the text into (one more
\* than the matches)
ApplyPatternCountPieces(st, p) ==
    LET matches == FindAll(p.re, st.content)
        subbed == Subn(p.re, p.replacement, st.content)
    IN  [content |-> subbed.text,
         removed_items |-> [st.removed_items EXCEPT ![p.category] = Len(matches) + 1],
         applied |-> Append(st.applied, p.category),
         subs |-> [st.subs EXCEPT ![p.category] = @ + subbed.n],
         matched |-> st.matched \cup {matches[j] : j \in 1..Len(matches)}]

\* One iteration of the loop over the patterns: count the matches in the
\* current text, then substitute them.  applied, subs and matched are not
\* data of the program: they record which categories' rules ran, how many
\* replacements re.sub made and which substrings were matched.
ApplyPattern(st, p) ==
    LET matches == FindAll(p.re, st.content)
        subbed == Subn(p.re, p.replacement, st.content)
    IN  [content |-> subbed.text,
         removed_items |-> [st.removed_items EXCEPT ![p.category] = Len(matches)],
         applied |-> Append(st.applied, p.category),
         subs |-> [st.subs EXCEPT ![p.category] = @ + subbed.n],
         matched |-> st.matched \cup {matches[j] : j \in 1..Len(matches)}]

RECURSIVE ApplyPatterns(_, _, _)
ApplyPatterns(patterns, k, st) ==
    IF k > Len(patterns) THEN st
    ELSE ApplyPatterns(patterns, k + 1, ApplyPattern(st, patterns[k]))

\* SanitizedLength taking the length of the text before the substitutions
SanitizedLengthOfInput(content, sanitized_content) == Len(content)

\* 'sanitized_length': len(sanitized_content)
SanitizedLength(content, sanitized_content) == Len(sanitized_content)

\* SanitizationInfo that also keeps the matched substrings
SanitizationInfoKeepingMatches(content, level, st, at) ==
    [sanitization_level |-> level,
     original_length |-> Len(content),
     sanitized_length |-> Len(st.content),
     removed_items |-> st.removed_items,
     removed_values |-> st.matched,
     processed_at |-> at]

\* the 'info' dictionary of the returned value
SanitizationInfo(content, level, st, at) ==
    [sanitization_level |-> level,
     original_length |-> Len(content),
     sanitized_length |-> SanitizedLength(content, st.content),
     removed_items |-> st.removed_items,
     processed_at |-> at]

\* _sanitize_content(content, level), called when the clock shows `at`.
\* It never raises: an unknown level takes the else branch of Patterns.
SanitizeContent(content, level, at) ==
    LET st == ApplyPatterns(Patterns(level), 1,
                  [content |-> content,
                   removed_items |-> InitialRemovedItems,
                   applied |-> <<>>,
                   subs |-> [c \in Categories |-> 0],
                   matched |-> {}])
    IN  [content |-> st.content,
         info |-> SanitizationInfo(content, level, st, at),
         applied |-> st.applied,
         subs |-> st.subs,
         matched |-> st.matched]

----------------------------------------------------------------------------
(* The documents the model processes *)

\* how many _sanitize_content calls a behaviour makes, at most
MaxCalls == 2

\* "555-123-4567", "1234567890@x.co", "4111 1111 1111 1111", "John Smith",
\* "123-45-6789", a blank, and a letter (which, put next to a number, removes
\* the word boundary the numeric patterns need)
Fragments ==
    { <<"5","5","5","-","1","2","3","-","4","5","6","7">>,
      <<"1","2","3","4","5","6","7","8","9","0","@","x",".","c","o">>,
      <<"4","1","1","1"," ","1","1","1","1"," ","1","1","1","1"," ","1","1","1","1">>,
      <<"J","o","h","n"," ","S","m","i","t","h">>,
      <<"1","2","3","-","4","5","-","6","7","8","9">>,
      <<" ">>,
      <<"a">> }

\* the empty text, every fragment and every two fragments in a row
FragmentTexts == {x \o y : x, y \in Fragments \cup {<<>>}}

\* "Contact me at jane@example.com or 555-123-4567",
\* "My card is 4111 1111 1111 1111",
\* "John Smith met John Smith at 123 Main Street, 90210",
\* "SSN 123-45-6789", "Call 555-123-4567 ref a555-123-4567"
ScenarioDocuments ==
    { <<"C","o","n","t","a","c","t"," ","m","e"," ","a","t"," ","j","a","n","e","@","e","x","a","m","p","l","e",".","c","o","m"," ","o","r"," ","5","5","5","-","1","2","3","-","4","5","6","7">>,
      <<"M","y"," ","c","a","r","d"," ","i","s"," ","4","1","1","1"," ","1","1","1","1"," ","1","1","1","1"," ","1","1","1","1">>,
      <<"J","o","h","n"," ","S","m","i","t","h"," ","m","e","t"," ","J","o","h","n"," ","S","m","i","t","h"," ","a","t"," ","1","2","3"," ","M","a","i","n"," ","S","t","r","e","e","t",","," ","9","0","2","1","0">>,
      <<"S","S","N"," ","1","2","3","-","4","5","-","6","7","8","9">>,
      <<"C","a","l","l"," ","5","5","5","-","1","2","3","-","4","5","6","7"," ","r","e","f"," ","a","5","5","5","-","1","2","3","-","4","5","6","7">> }

\* "My card is 4111 1111 1111 1111, mail jane@example.com"
CardAndMail ==
    <<"M","y"," ","c","a","r","d"," ","i","s"," ","4","1","1","1"," ","1","1","1","1"," ","1","1","1","1"," ","1","1","1","1",","," ","m","a","i","l"," ","j","a","n","e","@","e","x","a","m","p","l","e",".","c","o","m">>

\* "John met John"
JohnMetJohn == <<"J","o","h","n"," ","m","e","t"," ","J","o","h","n">>

\* "at 12 oak St"
OakSt == <<"a","t"," ","1","2"," ","o","a","k"," ","S","t">>

Documents ==
    FragmentTexts \cup ScenarioDocuments \cup {CardAndMail, JohnMetJohn, OakSt}

\* the four names of the level selector, and a string that is none of them
KnownLevels == {"none", "low", "medium", "high"}
LevelStrings == KnownLevels \cup {"HIGH"}

----------------------------------------------------------------------------
(* The sanitizer called directly: Spec *)

\* self.supported_formats
SupportedFormats == {"pdf", "docx", "pptx"}

\* DocumentProcessor(enable_privacy)
NewProcessor(enable_privacy) ==
    [enable_privacy |-> enable_privacy, supported_formats |-> SupportedFormats]

NoBatch == [kind |-> "none"]
\* a processor made as main makes it; no batch, no temporary file
BatchIdle ==
    /\ processor = NewProcessor(TRUE)
    /\ uploads = <<>>
    /\ batch = NoBatch
    /\ tmpfiles = {}

NoData == [kind |-> "none"]
NoAnalysis == [kind |-> "none"]
NoPage == [kind |-> "none"]
NoOutcome == [kind |-> "none"]

\* The record of one call: its arguments, what it returned and what it
\* raised ("": it returned normally; _sanitize_content has no raise).
CallRecord(content, level, at) ==
    [text |-> content, level |-> level, raised |-> "",
     out |-> SanitizeContent(content, level, at)]

Init ==
    /\ doc \in Documents
    /\ fname = <<>>
    /\ now = 0
    /\ calls = <<>>
    /\ data = NoData
    /\ analysis = NoAnalysis
    /\ store = <<>>
    /\ saves = <<>>
    /\ raised = ""
    /\ page = NoPage
    /\ outcome = NoOutcome
    /\ BatchIdle

\* Sanitize keeping the counts of the last call on the instance
SanitizeRemembering(level) ==
    /\ Len(calls) < MaxCalls
    /\ calls' = Append(calls, CallRecord(doc, level, now))
    /\ now' = now + 1
    /\ raised' = ""
    /\ processor' = [enable_privacy |-> processor.enable_privacy,
                     supported_formats |-> processor.supported_formats,
                     last_removed_items |-> calls'[Len(calls')].out.info.removed_items]
    /\ UNCHANGED <<doc, fname, data, analysis, store, saves, page, outcome>>
    /\ UNCHANGED <<uploads, batch, tmpfiles>>

\* _sanitize_content(doc, level); the clock has moved on when it returns
Sanitize(level) ==
    /\ Len(calls) < MaxCalls
    /\ calls' = Append(calls, CallRecord(doc, level, now))
    /\ now' = now + 1
    /\ raised' = ""
    /\ UNCHANGED <<doc, fname, data, analysis, store, saves, page, outcome>>
    /\ UNCHANGED batchvars

\* _sanitize_content on the redacted text an earlier call returned, at that
\* call's level
Resanitize(k) ==
    /\ Len(calls) < MaxCalls
    /\ calls' = Append(calls, CallRecord(calls[k].out.content, calls[k].level, now))
    /\ now' = now + 1
    /\ raised' = ""
    /\ UNCHANGED <<doc, fname, data, analysis, store, saves, page, outcome>>
    /\ UNCHANGED batchvars

Next ==
    \/ \E level \in LevelStrings : Sanitize(level)
    \/ \E k \in 1..Len(calls) : Resanitize(k)

Spec == Init /\ [][Next]_vars

----------------------------------------------------------------------------
(* Properties of the sanitizer called directly (Spec) *)

Calls == 1..Len(calls)
Info(k) == calls[k].out.info
Removed(k) == Info(k).removed_items
TotalRemoved(k) ==
    Removed(k)["emails"] + Removed(k)["phone_numbers"] + Removed(k)["credit_cards"]
        + Removed(k)["ssns"] + Removed(k)["names"] + Removed(k)["addresses"]
TotalSubs(k) ==
    LET n == calls[k].out.subs
    IN  n["emails"] + n["phone_numbers"] + n["credit_cards"]
            + n["ssns"] + n["names"] + n["addresses"]
AppliedSet(k) == {calls[k].out.applied[j] : j \in 1..Len(calls[k].out.applied)}

\* none < low < medium < high
LevelRank(level) ==
    IF level = "none" THEN 0 ELSE IF level = "low" THEN 1
    ELSE IF level = "medium" THEN 2 ELSE 3

\* the categories the specification makes active at each level
SpecifiedCategories(level) ==
    IF level = "none" THEN {}
    ELSE IF level = "low" THEN {"credit_cards", "phone_numbers"}
    ELSE IF level = "medium" THEN {"credit_cards", "phone_numbers", "emails"}
    ELSE Categories

\* C1: at each of the levels none < low < medium < high the rules that
\* _sanitize_content applies are those of exactly the categories
\* none -> {}, low -> {credit_cards, phone_numbers}, medium -> low + {emails},
\* high -> medium + {ssns, names, addresses}; so a category applied at a level
\* is applied at every higher level.
C1_LevelCategories ==
    /\ \A k \in Calls :
           calls[k].level \in KnownLevels
               => AppliedSet(k) = SpecifiedCategories(calls[k].level)
    /\ \A j, k \in Calls :
           /\ calls[j].level \in KnownLevels
           /\ calls[k].level \in KnownLevels
           /\ LevelRank(calls[j].level) <= LevelRank(calls[k].level)
           => AppliedSet(j) \subseteq AppliedSet(k)

\* a call at medium and a call at high have been made, with three and six
\* categories applied
C1_Witness ==
    \E j, k \in Calls :
        /\ calls[j].level = "medium" /\ Cardinality(AppliedSet(j)) = 3
        /\ calls[k].level = "high" /\ Cardinality(AppliedSet(k)) = 6

\* C4: monotonicity: for one text, the count of every category at a higher
\* level is at least its count at a lower level, and at level none every
\* count is 0.
C4_Monotonicity ==
    /\ \A k \in Calls :
           calls[k].level = "none" => \A c \in Categories : Removed(k)[c] = 0
    /\ \A j, k \in Calls :
           /\ calls[j].text = calls[k].text
           /\ calls[j].level \in KnownLevels
           /\ calls[k].level \in KnownLevels
           /\ LevelRank(calls[j].level) <= LevelRank(calls[k].level)
           => \A c \in Categories : Removed(j)[c] <= Removed(k)[c]

\* C5: idempotence: sanitizing the redacted text of an earlier call again at
\* that call's level removes nothing in any category and returns the text
\* unchanged.
C5_Idempotence ==
    \A j, k \in Calls :
        /\ j < k
        /\ calls[k].text = calls[j].out.content
        /\ calls[k].level = calls[j].level
        => /\ \A c \in Categories : Removed(k)[c] = 0
           /\ calls[k].out.content = calls[k].text

\* a redacted text in which the first call replaced something has been
\* sanitized again at the same level
C5_Witness ==
    \E j, k \in Calls :
        /\ j < k
        /\ calls[k].text = calls[j].out.content
        /\ calls[k].level = calls[j].level
        /\ TotalRemoved(j) >= 2
        /\ calls[j].out.content # calls[j].text

C7_UnknownLevelRaises ==
    \A k \in Calls :
        calls[k].level \notin KnownLevels => calls[k].raised = "InvalidPolicyLevel"

\* C8: in every outcome sanitized_length is the length of the returned text
\* and original_length the length of the input text.
C8_Lengths ==
    \A k \in Calls :
        /\ Info(k).sanitized_length = Len(calls[k].out.content)
        /\ Info(k).original_length = Len(calls[k].text)

\* an outcome whose redacted text is not as long as its input
C8_Witness ==
    \E k \in Calls : Len(calls[k].out.content) # Len(calls[k].text)

\* C9: the count recorded for a category is the number of replacements that
\* category's rule made on the text as it stood when the rule ran, and the
\* counts sum to the number of substitutions of the run.
C9_CountsAreSubstitutions ==
    \A k \in Calls :
        /\ \A c \in Categories : Removed(k)[c] = calls[k].out.subs[c]
        /\ TotalRemoved(k) = TotalSubs(k)

\* an outcome with substitutions in two categories, after the first of which
\* the text was no longer the input text
C9_Witness ==
    \E k \in Calls :
        \E c, d \in Categories :
            c # d /\ Removed(k)[c] >= 1 /\ Removed(k)[d] >= 1

\* C10: the metadata of an outcome holds the level name, two lengths, a count
\* per category and a time, and nothing else: no field holds a substring that
\* a rule removed.
C10_MetadataHoldsNoText ==
    \A k \in Calls :
        /\ DOMAIN Info(k) = {"sanitization_level", "original_length",
                             "sanitized_length", "removed_items", "processed_at"}
        /\ Info(k).sanitization_level = calls[k].level
        /\ Info(k).original_length \in Nat
        /\ Info(k).sanitized_length \in Nat
        /\ Info(k).processed_at \in Nat
        /\ DOMAIN Removed(k) = Categories
        /\ \A c \in Categories : Removed(k)[c] \in Nat

\* an outcome of a call that removed substrings
C10_Witness ==
    \E k \in Calls : calls[k].out.matched # {} /\ TotalRemoved(k) > 0

----------------------------------------------------------------------------
(* The pipeline of app.py: process_document, analyze_document, the saves of
   PrivacyManager: PipelineSpec *)

\* how far the clock runs, in ticks, and how many ticks make one second of
\* the %Y%m%d_%H%M%S stamps
MaxTime == 2
TicksPerSecond == 2
\* how many save calls a behaviour makes, at most
MaxSaves == 2

\* "Contact me at jane@example.com or 555-123-4567",
\* "Call 555-123-4567 ref a555-123-4567", "1234567890@x.co", "plain" and the
\* empty text
PipelineDocuments ==
    { <<"C","o","n","t","a","c","t"," ","m","e"," ","a","t"," ","j","a","n","e","@","e","x","a","m","p","l","e",".","c","o","m"," ","o","r"," ","5","5","5","-","1","2","3","-","4","5","6","7">>,
      <<"C","a","l","l"," ","5","5","5","-","1","2","3","-","4","5","6","7"," ","r","e","f"," ","a","5","5","5","-","1","2","3","-","4","5","6","7">>,
      <<"1","2","3","4","5","6","7","8","9","0","@","x",".","c","o">>,
      <<"p","l","a","i","n">>,
      <<>> }

Filenames == {"report.pdf", "notes.docx", "readme.txt"}

\* file_name.split('.')[-1].lower() of the names used
FileExtension(filename) ==
    IF filename = "report.pdf" THEN "pdf"
    ELSE IF filename = "notes.docx" THEN "docx"
    ELSE IF filename = "deck.pptx" THEN "pptx"
    ELSE "txt"

\* hashlib.md5(filename.encode()).hexdigest()[:8] of the three names
ContentHash(filename) ==
    IF filename = "report.pdf" THEN "5c6813f4"
    ELSE IF filename = "notes.docx" THEN "57776793"
    ELSE "eb6b6c90"

\* strftime("%Y%m%d_%H%M%S"): the time to the second, as a string
SecondStamp(at) == ToString(at \div TicksPerSecond)

NoInfo == [kind |-> "none"]

\* a processor that leaves the extracted text in document_data['content']
ProcessedContentRaw(content, sanitized_data) == content

\* document_data['content'] after the sanitization step
ProcessedContent(content, sanitized_data) == sanitized_data.content

\* process_document's document_data.  redacted and matched are not data of
\* the program: the text the sanitizer returned and the substrings it matched.
DocumentData(filename, content, level, at) ==
    IF level # "none"
    THEN LET sanitized_data == SanitizeContent(content, level, at)
         IN  [kind |-> "data", filename |-> filename,
              type |-> FileExtension(filename), processed_at |-> at,
              content |-> ProcessedContent(content, sanitized_data),
              sanitization_info |-> sanitized_data.info,
              redacted |-> sanitized_data.content,
              matched |-> sanitized_data.matched]
    ELSE [kind |-> "data", filename |-> filename,
          type |-> FileExtension(filename), processed_at |-> at,
          content |-> content,
          sanitization_info |-> NoInfo,
          redacted |-> content,
          matched |-> {}]

\* len(content.split())
WordCount(content) ==
    Cardinality({i \in 1..Len(content) :
                    /\ content[i] \notin Space
                    /\ (i = 1 \/ content[i - 1] \in Space)})

\* What the backend may answer to a prompt built from content: a text of its
\* own ("summary"), or the content it was given, repeated.
BackendOwnWords == <<"s","u","m","m","a","r","y">>
BackendReplies(content) == {BackendOwnWords, content}

\* the texts of the AnalysisResult that analyze_document returns when a
\* request failed: "Error generating summary: ...", "Analysis partially
\* failed", "Error in theme extraction", "Error in headline generation"
ErrorSummary == <<"E","r","r","o","r"," ","g","e","n","e","r","a","t","i","n","g"," ","s","u","m","m","a","r","y">>
PartiallyFailed == <<"A","n","a","l","y","s","i","s"," ","p","a","r","t","i","a","l","l","y"," ","f","a","i","l","e","d">>
ErrorInThemes == <<"E","r","r","o","r"," ","i","n"," ","t","h","e","m","e"," ","e","x","t","r","a","c","t","i","o","n">>
ErrorInHeadlines == <<"E","r","r","o","r"," ","i","n"," ","h","e","a","d","l","i","n","e"," ","g","e","n","e","r","a","t","i","o","n">>

\* the requests analyze_document makes when none fails: summary, executive
\* summary, themes, headlines, sentiment
RequestsPerAnalysis == 5

\* the AnalysisResult of a successful analysis whose requests the backend
\* answered with reply.  requests is not data of the program: the number of
\* _make_request calls the analysis made.
AnalysisOf(content, reply) ==
    [kind |-> "analysis", summary |-> reply, executive_summary |-> reply,
     key_themes |-> <<reply>>, slide_headlines |-> <<reply>>,
     word_count |-> WordCount(content), sentiment |-> "Neutral",
     requests |-> RequestsPerAnalysis]

\* FailedAnalysis whose sentiment is the fallback of a successful analysis
FailedAnalysisNeutral(content, failed_at) ==
    [kind |-> "analysis", summary |-> ErrorSummary,
     executive_summary |-> PartiallyFailed,
     key_themes |-> <<ErrorInThemes>>, slide_headlines |-> <<ErrorInHeadlines>>,
     word_count |-> WordCount(content), sentiment |-> "Neutral",
     requests |-> failed_at]

\* the AnalysisResult of the except branch, taken when request number
\* failed_at raised: no request follows the failed one
FailedAnalysis(content, failed_at) ==
    [kind |-> "analysis", summary |-> ErrorSummary,
     executive_summary |-> PartiallyFailed,
     key_themes |-> <<ErrorInThemes>>, slide_headlines |-> <<ErrorInHeadlines>>,
     word_count |-> WordCount(content), sentiment |-> "Unknown",
     requests |-> failed_at]

\* the dictionary save_single_analysis writes
AnalysisData(result, filename, sanitization_info, at) ==
    [filename |-> filename, timestamp |-> at,
     summary |-> result.summary,
     executive_summary |-> result.executive_summary,
     key_themes |-> result.key_themes,
     slide_headlines |-> result.slide_headlines,
     word_count |-> result.word_count,
     sentiment |-> result.sentiment,
     sanitization_info |-> sanitization_info,
     privacy_protected |-> TRUE]

\* analyses_dir / f"analysis_{content_hash}_{stamp}.json"
AnalysisFile(filename, at) ==
    [dir |-> "analyses", name |-> <<"analysis", ContentHash(filename), SecondStamp(at)>>]

\* the dictionary save_analysis_locally writes
SessionData(analysis_results, session_id, at) ==
    [session_id |-> session_id, created_at |-> at,
     document_count |-> Len(analysis_results),
     analyses |-> analysis_results,
     privacy_guaranteed |-> TRUE]

\* sessions_dir / f"session_{session_id}.json"
SessionFile(session_id) ==
    [dir |-> "sessions", name |-> <<"session", session_id>>]

\* session_id as given, or the time to the second when none is given
SessionId(given, at) == IF given = "" THEN SecondStamp(at) ELSE given

\* What open(path, 'w') and json.dump leave at path: the whole record; or,
\* when writing fails part-way, a file that is not the whole record; or, when
\* the file cannot be opened, what was there before.  mtime is the time of
\* the write, which the file system keeps.
WriteFile(files, path, record, failure, at) ==
    IF failure = "open" THEN files
    ELSE [q \in DOMAIN files \cup {path} |->
             IF q = path
             THEN [complete |-> failure = "", record |-> record, mtime |-> at]
             ELSE files[q]]

WriteFailures == {"", "open", "dump"}

PInit ==
    /\ doc \in PipelineDocuments
    /\ fname \in Filenames
    /\ now = 0
    /\ calls = <<>>
    /\ data = NoData
    /\ analysis = NoAnalysis
    /\ store = <<>>
    /\ saves = <<>>
    /\ raised = ""
    /\ page = NoPage
    /\ outcome = NoOutcome
    /\ BatchIdle

\* time passes
Tick ==
    /\ now < MaxTime
    /\ now' = now + 1
    /\ UNCHANGED <<doc, fname, calls, data, analysis, store, saves, raised, page, outcome>>
    /\ UNCHANGED batchvars

\* processor.process_document(uploaded_file, sanitization_level) with
\* enable_privacy=True; doc is the text the extraction step yields
ProcessDocument(level) ==
    /\ data = NoData
    /\ raised = ""
    /\ IF FileExtension(fname) \notin SupportedFormats
       THEN raised' = "ValueError" /\ data' = data
       ELSE raised' = "" /\ data' = DocumentData(fname, doc, level, now)
    /\ UNCHANGED <<doc, fname, now, calls, analysis, store, saves, page, outcome>>
    /\ UNCHANGED batchvars

\* analyzer.analyze_document(document_data): ValueError on empty content;
\* otherwise the result built from the backend's answers, or the result of
\* the except branch when a request failed.  failed_at is the number of the
\* request that fails or times out, 0 when every request is answered.
AnalyzeDocument(failed_at) ==
    /\ data # NoData
    /\ analysis = NoAnalysis
    /\ raised = ""
    /\ IF data.content = <<>>
       THEN raised' = "ValueError" /\ analysis' = analysis
       ELSE /\ raised' = ""
            /\ IF failed_at = 0
               THEN \E reply \in BackendReplies(data.content) :
                        analysis' = AnalysisOf(data.content, reply)
               ELSE analysis' = FailedAnalysis(data.content, failed_at)
    /\ UNCHANGED <<doc, fname, now, calls, data, store, saves, page, outcome>>
    /\ UNCHANGED batchvars

\* privacy_manager.save_single_analysis(analysis, uploaded_file.name,
\* document_data.get('sanitization_info'))
SaveSingleAnalysis(failure) ==
    /\ analysis # NoAnalysis
    /\ Len(saves) < MaxSaves
    /\ LET path == AnalysisFile(fname, now)
           record == AnalysisData(analysis, fname, data.sanitization_info, now)
       IN  /\ store' = WriteFile(store, path, record, failure, now)
           /\ saves' = Append(saves,
                  [op |-> "save_single_analysis", path |-> path,
                   returned |-> IF failure = "" THEN path ELSE NoData])
    /\ raised' = ""
    /\ UNCHANGED <<doc, fname, now, calls, data, analysis, page, outcome>>
    /\ UNCHANGED batchvars

\* privacy_manager.save_analysis_locally([analysis], session_id), session_id
\* "" standing for None
SaveAnalysisLocally(given, failure) ==
    /\ analysis # NoAnalysis
    /\ Len(saves) < MaxSaves
    /\ LET session_id == SessionId(given, now)
           path == SessionFile(session_id)
           record == SessionData(<<analysis>>, session_id, now)
       IN  /\ store' = WriteFile(store, path, record, failure, now)
           /\ saves' = Append(saves,
                  [op |-> "save_analysis_locally", path |-> path,
                   returned |-> IF failure = "" THEN path ELSE NoData])
    /\ raised' = ""
    /\ UNCHANGED <<doc, fname, now, calls, data, analysis, page, outcome>>
    /\ UNCHANGED batchvars

SessionIds == {"", "s1"}
\* every request answered, or the first one failing
PipelineFailures == {0, 1}

PNext ==
    \/ Tick
    \/ \E level \in LevelStrings : ProcessDocument(level)
    \/ \E failed_at \in PipelineFailures : AnalyzeDocument(failed_at)
    \/ \E failure \in WriteFailures : SaveSingleAnalysis(failure)
    \/ \E given \in SessionIds, failure \in WriteFailures :
           SaveAnalysisLocally(given, failure)

PipelineSpec == PInit /\ [][PNext]_vars

----------------------------------------------------------------------------
(* Properties of the pipeline and the store (PipelineSpec) *)

\* t contains m as a substring
ContainsText(t, m) ==
    \E i \in 1..(Len(t) - Len(m) + 1) : SubSeq(t, i, i + Len(m) - 1) = m

SeqRange(q) == {q[i] : i \in 1..Len(q)}

\* the text-valued fields of an AnalysisResult or of an analysis dictionary
AnalysisTexts(r) ==
    {r.summary, r.executive_summary} \cup SeqRange(r.key_themes)
        \cup SeqRange(r.slide_headlines)

\* every text held by the file at path p
StoredTexts(p) ==
    IF p.dir = "analyses" THEN AnalysisTexts(store[p].record)
    ELSE UNION {AnalysisTexts(store[p].record.analyses[i]) :
                    i \in 1..Len(store[p].record.analyses)}

AnalysisDataFields ==
    {"filename", "timestamp", "summary", "executive_summary", "key_themes",
     "slide_headlines", "word_count", "sentiment", "sanitization_info",
     "privacy_protected"}
SessionDataFields ==
    {"session_id", "created_at", "document_count", "analyses", "privacy_guaranteed"}
ErrorTexts == {ErrorSummary, PartiallyFailed, ErrorInThemes, ErrorInHeadlines}

C3_SavePathsDiffer ==
    \A i, j \in 1..Len(saves) :
        (i < j /\ saves[i].returned # NoData /\ saves[j].returned # NoData)
            => saves[i].path # saves[j].path

----------------------------------------------------------------------------
(* The privacy report and the page that main renders (AppSpec) *)

\* removed_items' keys in the order the dictionary was built
CategoryOrder ==
    <<"emails", "phone_numbers", "credit_cards", "ssns", "names", "addresses">>

\* item_type.replace('_', ' ').title()
CategoryTitle(item_type) ==
    IF item_type = "emails" THEN "Emails"
    ELSE IF item_type = "phone_numbers" THEN "Phone Numbers"
    ELSE IF item_type = "credit_cards" THEN "Credit Cards"
    ELSE IF item_type = "ssns" THEN "Ssns"
    ELSE IF item_type = "names" THEN "Names"
    ELSE "Addresses"

\* sanitization_level.title()
LevelTitle(level) ==
    IF level = "low" THEN "Low"
    ELSE IF level = "medium" THEN "Medium"
    ELSE IF level \in {"high", "HIGH"} THEN "High"
    ELSE "None"

\* a line of the report: its fixed text and the value formatted into it
Line(label, value) == [label |-> label, value |-> value]

\* the lines every report begins with
ReportHeader ==
    << Line("Privacy Protection Report", ""),
       Line("Guaranteed Privacy Features:", ""),
       Line("All processing performed locally on your computer", ""),
       Line("No data transmission to external servers", ""),
       Line("Automatic temporary file cleanup", ""),
       Line("Memory cleared after processing", ""),
       Line("Results stored locally only", "") >>

\* sum(removed_items.values())
TotalOf(removed_items) ==
    removed_items["emails"] + removed_items["phone_numbers"]
        + removed_items["credit_cards"] + removed_items["ssns"]
        + removed_items["names"] + removed_items["addresses"]

CategoryLine(removed_items, item_type) ==
    Line(CategoryTitle(item_type), ToString(removed_items[item_type]))

\* a breakdown that lists every category, also those with count 0
CategoryLinesWithZeros(removed_items) ==
    [i \in 1..Len(CategoryOrder) |-> CategoryLine(removed_items, CategoryOrder[i])]

\* the loop over removed_items.items(): a line for each count > 0
CategoryLines(removed_items) ==
    LET Counted(item_type) == removed_items[item_type] > 0
        kept == SelectSeq(CategoryOrder, Counted)
    IN  [i \in 1..Len(kept) |-> CategoryLine(removed_items, kept[i])]

NoPatternsLine == Line("No sensitive patterns detected", "")

\* a section without the line for the level
LevelLinesNone(sanitization_info) == <<>>

\* the line for the level
LevelLines(sanitization_info) ==
    << Line("Level", LevelTitle(sanitization_info.sanitization_level)) >>

\* the section "Document Sanitization Applied"
SanitizationSection(sanitization_info) ==
    << Line("Document Sanitization Applied:", "") >>
    \o LevelLines(sanitization_info)
    \o << Line("Original length", ToString(sanitization_info.original_length)),
          Line("Processed length", ToString(sanitization_info.sanitized_length)) >>
    \o (IF TotalOf(sanitization_info.removed_items) > 0
        THEN << Line("Total sensitive items removed",
                     ToString(TotalOf(sanitization_info.removed_items))) >>
             \o CategoryLines(sanitization_info.removed_items)
        ELSE << NoPatternsLine >>)

\* get_privacy_report(sanitization_info); NoInfo stands for None
GetPrivacyReport(sanitization_info) ==
    IF sanitization_info # NoInfo
    THEN ReportHeader \o SanitizationSection(sanitization_info)
    ELSE ReportHeader

\* what main renders once the analysis is there: the result tabs and, in the
\* privacy tab, the report when the document was sanitized
RenderedPage(save_analysis) ==
    [kind |-> "page", save_analysis |-> save_analysis, shown |-> analysis,
     report |-> IF data.sanitization_info # NoInfo
                THEN GetPrivacyReport(data.sanitization_info) ELSE <<>>]

\* what main has rendered when the script stops before the result tabs
StoppedPage(save_analysis) ==
    [kind |-> "page", save_analysis |-> save_analysis, shown |-> NoAnalysis,
     report |-> <<>>]

\* main from "Save analysis locally if enabled" to the end of the tabs.  With
\* saving enabled main calls save_analysis_locally(analysis, name, info):
\* three positional arguments to a method that takes analysis_results and
\* session_id, so the call raises TypeError before the method's body runs,
\* nothing catches it and the script stops there.
MainSaveAndRender(save_analysis) ==
    /\ analysis # NoAnalysis
    /\ raised = ""
    /\ page = NoPage
    /\ IF save_analysis
       THEN raised' = "TypeError" /\ page' = StoppedPage(save_analysis)
       ELSE raised' = "" /\ page' = RenderedPage(save_analysis)
    /\ UNCHANGED <<doc, fname, now, calls, data, analysis, store, saves, outcome>>
    /\ UNCHANGED batchvars

AInit ==
    /\ doc \in Documents
    /\ fname \in Filenames
    /\ now = 0
    /\ calls = <<>>
    /\ data = NoData
    /\ analysis = NoAnalysis
    /\ store = <<>>
    /\ saves = <<>>
    /\ raised = ""
    /\ page = NoPage
    /\ outcome = NoOutcome
    /\ BatchIdle

ANext ==
    \/ \E level \in KnownLevels : ProcessDocument(level)
    \/ \E failed_at \in 0..RequestsPerAnalysis : AnalyzeDocument(failed_at)
    \/ \E save_analysis \in BOOLEAN : MainSaveAndRender(save_analysis)

AppSpec == AInit /\ [][ANext]_vars

\* C11: a failed store write never fails the analysis: a save call whose
\* write failed returned no key and raised nothing, and whenever main has run
\* its save-and-render step, with saving enabled or not, the analysis result
\* is on the page.
C11_SaveNeverFailsAnalysis ==
    /\ \A i \in 1..Len(saves) : saves[i].returned \in {NoData, saves[i].path}
    /\ page # NoPage => (raised = "" /\ page.shown = analysis)

----------------------------------------------------------------------------
(* Listing and sweeping the store (StoreSpec) *)

\* a day, in ticks
TicksPerDay == 2

\* None where a time is expected, and the '' that x.get('timestamp', '')
\* falls back to: '' sorts before every time, None compares with nothing
NoneStamp == -1
EmptyStamp == -2

\* a parsed JSON value that is a list, not an object
JsonList == [kind |-> "list"]
IsDict(value) == "kind" \notin DOMAIN value

\* d.get(key, default)
Get(d, key, default) == IF key \in DOMAIN d THEN d[key] ELSE default

\* analyses_dir.glob("analysis_*.json") and sessions_dir.glob("session_*.json")
AnalysisFiles(files) ==
    {q \in DOMAIN files : q.dir = "analyses" /\ q.name[1] = "analysis"}
SessionFiles(files) ==
    {q \in DOMAIN files : q.dir = "sessions" /\ q.name[1] = "session"}

\* the orders in which a glob may yield the paths of S
Orderings(S) ==
    {q \in [1..Cardinality(S) -> S] : \A i, j \in DOMAIN q : i # j => q[i] # q[j]}

\* Files in the storage directory that no save wrote: a session object without
\* created_at, an analysis file holding a JSON list, and a file that is no
\* artifact.
ForeignFiles ==
    { [path |-> [dir |-> "sessions", name |-> <<"session", "old">>],
       record |-> [session_id |-> "old", document_count |-> 1]],
      [path |-> [dir |-> "analyses", name |-> <<"analysis", "edited", "0">>],
       record |-> JsonList],
      [path |-> [dir |-> "analyses", name |-> <<"notes">>],
       record |-> JsonList] }

\* the history entry of a session file; "" stands for a session_id of None
SessionSummary(session_data) ==
    [session_id |-> Get(session_data, "session_id", ""),
     timestamp |-> Get(session_data, "created_at", NoneStamp),
     document_count |-> Get(session_data, "document_count", 0),
     type |-> "multi_document_session"]

\* the first loop: every analysis file that parses is appended as it is
RECURSIVE LoadAnalyses(_, _, _)
LoadAnalyses(files, order, k) ==
    IF k > Len(order) THEN <<>>
    ELSE (IF files[order[k]].complete THEN <<files[order[k]].record>> ELSE <<>>)
         \o LoadAnalyses(files, order, k + 1)

\* the second loop: every session file that parses to an object is summarised
RECURSIVE LoadSessions(_, _, _)
LoadSessions(files, order, k) ==
    IF k > Len(order) THEN <<>>
    ELSE (IF files[order[k]].complete /\ IsDict(files[order[k]].record)
          THEN <<SessionSummary(files[order[k]].record)>> ELSE <<>>)
         \o LoadSessions(files, order, k + 1)

\* key=lambda x: x.get('timestamp', '')
SortKey(x) == Get(x, "timestamp", EmptyStamp)

\* a sort without reverse=True
SortedOldestFirst(history) ==
    LET Rank(i) == Cardinality({j \in 1..Len(history) :
                       \/ SortKey(history[j]) < SortKey(history[i])
                       \/ SortKey(history[j]) = SortKey(history[i]) /\ j < i}) + 1
    IN  [r \in 1..Len(history) |->
            history[CHOOSE i \in 1..Len(history) : Rank(i) = r]]

\* history.sort(key=..., reverse=True): descending, equal keys keep their order
Sorted(history) ==
    LET Rank(i) == Cardinality({j \in 1..Len(history) :
                       \/ SortKey(history[j]) > SortKey(history[i])
                       \/ SortKey(history[j]) = SortKey(history[i]) /\ j < i}) + 1
    IN  [r \in 1..Len(history) |->
            history[CHOOSE i \in 1..Len(history) : Rank(i) = r]]

\* what the sort raises: AttributeError when an entry is no object (the keys
\* are taken first), TypeError when None is compared with another key
SortRaises(history) ==
    IF \E i \in 1..Len(history) : ~IsDict(history[i]) THEN "AttributeError"
    ELSE IF Len(history) >= 2
            /\ \E i \in 1..Len(history) : SortKey(history[i]) = NoneStamp
    THEN "TypeError"
    ELSE ""

\* load_analysis_history(); listed is the store as it was at the call
LoadAnalysisHistory(analyses_order, sessions_order) ==
    LET history == LoadAnalyses(store, analyses_order, 1)
                   \o LoadSessions(store, sessions_order, 1)
    IN  /\ raised' = SortRaises(history)
        /\ outcome' = IF SortRaises(history) = ""
                      THEN [kind |-> "history", history |-> Sorted(history),
                            listed |-> store]
                      ELSE NoOutcome
        /\ UNCHANGED <<doc, fname, now, calls, data, analysis, store, saves, page>>
        /\ UNCHANGED batchvars

\* a store holding the files of present, none of them written by a save
ForeignStore(present) ==
    [q \in {file.path : file \in present} |->
        [complete |-> TRUE,
         record |-> (CHOOSE file \in present : file.path = q).record,
         mtime |-> 0]]

\* days_old values the sweep is called with
DaysOld == {0, 1}

\* st_mtime < cutoff_timestamp, with the bound taken as old too
IsOldOrAtCutoff(file, cutoff_timestamp) == file.mtime <= cutoff_timestamp

\* st_mtime < cutoff_timestamp
IsOld(file, cutoff_timestamp) == file.mtime < cutoff_timestamp

\* cleanup_old_analyses(days_old).  undeletable are the old artifacts whose
\* unlink fails: they stay and are not counted.  days_old, at, before, after
\* and failed record the call.
CleanupOldAnalyses(days_old, undeletable) ==
    LET cutoff_timestamp == now - days_old * TicksPerDay
        old == {q \in AnalysisFiles(store) \cup SessionFiles(store) :
                   IsOld(store[q], cutoff_timestamp)}
        removed == old \ undeletable
    IN  /\ undeletable \subseteq old
        /\ store' = [q \in DOMAIN store \ removed |-> store[q]]
        /\ outcome' = [kind |-> "cleaned", cleaned_count |-> Cardinality(removed),
                       days_old |-> days_old, at |-> now,
                       before |-> store, after |-> store',
                       failed |-> undeletable]
        /\ raised' = ""
        /\ UNCHANGED <<doc, fname, now, calls, data, analysis, saves, page>>
        /\ UNCHANGED batchvars

\* the text and the analysis that the saves of this specification store
StoredDocument == <<"p","l","a","i","n">>

SInit ==
    /\ doc = StoredDocument
    /\ fname = "report.pdf"
    /\ now = 0
    /\ calls = <<>>
    /\ data = DocumentData(fname, doc, "low", 0)
    /\ analysis = AnalysisOf(doc, BackendOwnWords)
    /\ \E present \in SUBSET ForeignFiles : store = ForeignStore(present)
    /\ saves = <<>>
    /\ raised = ""
    /\ page = NoPage
    /\ outcome = NoOutcome
    /\ BatchIdle

\* the failures and session ids of the saves of this specification
StoreWriteFailures == {"", "dump"}
StoreSessionIds == {"s1"}

\* the old artifacts whose unlink may fail in one sweep: none, or one
Undeletable(files) ==
    {{}} \cup {{q} : q \in AnalysisFiles(files) \cup SessionFiles(files)}

SNext ==
    \/ Tick
    \/ \E failure \in StoreWriteFailures : SaveSingleAnalysis(failure)
    \/ \E given \in StoreSessionIds, failure \in StoreWriteFailures :
           SaveAnalysisLocally(given, failure)
    \/ \E analyses_order \in Orderings(AnalysisFiles(store)),
          sessions_order \in Orderings(SessionFiles(store)) :
           LoadAnalysisHistory(analyses_order, sessions_order)
    \/ \E days_old \in DaysOld, undeletable \in Undeletable(store) :
           CleanupOldAnalyses(days_old, undeletable)

StoreSpec == SInit /\ [][SNext]_vars

----------------------------------------------------------------------------
(* Properties of listing and sweeping (StoreSpec) *)

Artifacts(files) == AnalysisFiles(files) \cup SessionFiles(files)

\* an artifact that parses and has the shape the saves write
WellFormed(files, q) ==
    /\ files[q].complete
    /\ IsDict(files[q].record)
    /\ IF q.dir = "analyses" THEN "timestamp" \in DOMAIN files[q].record
       ELSE "created_at" \in DOMAIN files[q].record

\* the history entry that stands for the artifact at q
EntryOf(files, q) ==
    IF q.dir = "analyses" THEN files[q].record
    ELSE SessionSummary(files[q].record)

\* C12: load_analysis_history always returns a listing: no call raises, a
\* corrupt or wrongly shaped artifact is skipped, and every well-formed
\* artifact of the store that was listed appears in the result.
C12_ListingSkipsCorruptArtifacts ==
    /\ raised = ""
    /\ outcome.kind = "history" =>
           \A q \in Artifacts(outcome.listed) :
               WellFormed(outcome.listed, q) =>
                   \E i \in 1..Len(outcome.history) :
                       outcome.history[i] = EntryOf(outcome.listed, q)

\* C13: a returned listing is ordered newest first: of two adjacent entries,
\* analyses and session summaries alike, the first one's timestamp is not
\* older than the second one's.
C13_NewestFirst ==
    outcome.kind = "history" =>
        \A i \in 1..(Len(outcome.history) - 1) :
            SortKey(outcome.history[i]) >= SortKey(outcome.history[i + 1])

\* a listing that begins with a session summary, found after the analyses,
\* and holds an analysis with an older timestamp behind it
C13_Witness ==
    /\ outcome.kind = "history"
    /\ Len(outcome.history) >= 2
    /\ "type" \in DOMAIN outcome.history[1]
    /\ \E i \in 2..Len(outcome.history) :
           /\ "filename" \in DOMAIN outcome.history[i]
           /\ SortKey(outcome.history[i]) < SortKey(outcome.history[1])
           /\ SortKey(outcome.history[i]) >= 0

\* the artifacts a sweep found older than days_old days, and those it removed
SweptOld ==
    {q \in Artifacts(outcome.before) :
        outcome.before[q].mtime < outcome.at - outcome.days_old * TicksPerDay}
SweptRemoved == DOMAIN outcome.before \ DOMAIN outcome.after

\* C14, as claimed: a sweep removes exactly the artifacts older than days_old
\* days, leaves every other file as it was and returns how many it removed.
C14_SweepRemovesExactlyTheOld ==
    outcome.kind = "cleaned" =>
        /\ SweptRemoved = SweptOld
        /\ \A q \in DOMAIN outcome.after : outcome.after[q] = outcome.before[q]
        /\ outcome.cleaned_count = Cardinality(SweptRemoved)

\* C14, amended: a sweep removes only artifacts whose file is older than
\* days_old days, namely every one of them whose deletion did not fail; what
\* it keeps (newer artifacts, files that are no artifacts, old artifacts it
\* could not delete) is unchanged; it returns how many files it removed.
C14_SweepRemovesTheOldItCanDelete ==
    outcome.kind = "cleaned" =>
        /\ SweptRemoved = SweptOld \ outcome.failed
        /\ DOMAIN outcome.after \subseteq DOMAIN outcome.before
        /\ \A q \in DOMAIN outcome.after : outcome.after[q] = outcome.before[q]
        /\ outcome.cleaned_count = Cardinality(SweptRemoved)

\* a sweep that removed an old artifact, kept an artifact written at the
\* cutoff or later, kept a file that is no artifact, and could not delete one
C14_Witness ==
    /\ outcome.kind = "cleaned"
    /\ SweptRemoved # {}
    /\ outcome.failed # {}
    /\ \E q \in Artifacts(outcome.after) : q \notin SweptOld
    /\ \E q \in DOMAIN outcome.after : q \notin Artifacts(outcome.after)

----------------------------------------------------------------------------
(* The stored analysis and the name of its document (PipelineSpec) *)

\* C15: a stored analysis names its document only through the hash: no part
\* of the file's name is the uploaded file's name, and no name-valued field
\* of the record (a filename field, if the record has one) holds it.
C15_ArtifactHidesFilename ==
    \A q \in DOMAIN store :
        q.dir = "analyses" =>
            /\ \A i \in 1..Len(q.name) : q.name[i] # fname
            /\ "filename" \in DOMAIN store[q].record
                   => store[q].record.filename # fname

----------------------------------------------------------------------------
(* Properties of the privacy report (AppSpec) *)

\* the report on the page, when main rendered one
HasReport == page # NoPage /\ page.report # <<>>
ReportedItems == data.sanitization_info.removed_items

\* the positions of the report's lines with the given label
LinesLabelled(label) ==
    {i \in 1..Len(page.report) : page.report[i].label = label}

\* the place of a category in the fixed order
OrderIndex(item_type) ==
    CHOOSE i \in 1..Len(CategoryOrder) : CategoryOrder[i] = item_type

\* C16: the report has one line for a category exactly when the category's
\* count is not zero, with that count, and these lines are in the fixed
\* category order; when every count is zero it has exactly one "no sensitive
\* patterns detected" line and no category line; the sanitization section is
\* there in both cases.
C16_CategoryLines ==
    HasReport =>
        /\ Cardinality(LinesLabelled("Document Sanitization Applied:")) = 1
        /\ \A c \in Categories :
               /\ Cardinality(LinesLabelled(CategoryTitle(c)))
                      = (IF ReportedItems[c] > 0 THEN 1 ELSE 0)
               /\ \A i \in LinesLabelled(CategoryTitle(c)) :
                      page.report[i].value = ToString(ReportedItems[c])
        /\ \A c, d \in Categories :
               \A i \in LinesLabelled(CategoryTitle(c)),
                  j \in LinesLabelled(CategoryTitle(d)) :
                   i < j => OrderIndex(c) < OrderIndex(d)
        /\ Cardinality(LinesLabelled(NoPatternsLine.label))
               = (IF \A c \in Categories : ReportedItems[c] = 0 THEN 1 ELSE 0)

\* a report with lines for two categories of an outcome in which another
\* category has count zero
C16_Witness ==
    /\ HasReport
    /\ \E c, d \in Categories :
           /\ c # d
           /\ LinesLabelled(CategoryTitle(c)) # {}
           /\ LinesLabelled(CategoryTitle(d)) # {}
    /\ \E c \in Categories : ReportedItems[c] = 0

\* C17, as claimed: the report states the level, the original length, the
\* redacted length and the percentage by which the text got shorter.
C17_ReportStatesReduction ==
    HasReport =>
        /\ LinesLabelled("Level") # {}
        /\ LinesLabelled("Original length") # {}
        /\ LinesLabelled("Processed length") # {}
        /\ \E i \in 1..Len(page.report) :
               page.report[i].label \in {"Reduction", "Percentage reduction"}

\* the labels of the lines a report can have
ReportLabels ==
    {ReportHeader[i].label : i \in 1..Len(ReportHeader)}
        \cup {"Document Sanitization Applied:", "Level", "Original length",
              "Processed length", "Total sensitive items removed",
              NoPatternsLine.label}
        \cup {CategoryTitle(c) : c \in Categories}

\* C17, amended: the report states the level (capitalised), the original
\* length and the processed length of the outcome, once each; it has no line
\* for a percentage: every line is a header line, one of these three, the
\* total of removed items, a category line or the "no patterns" line.
C17_ReportStatesLevelAndLengths ==
    HasReport =>
        /\ \E i \in 1..Len(page.report) :
               /\ LinesLabelled("Level") = {i}
               /\ page.report[i].value
                      = LevelTitle(data.sanitization_info.sanitization_level)
        /\ \E i \in 1..Len(page.report) :
               /\ LinesLabelled("Original length") = {i}
               /\ page.report[i].value = ToString(Len(doc))
        /\ \E i \in 1..Len(page.report) :
               /\ LinesLabelled("Processed length") = {i}
               /\ page.report[i].value = ToString(Len(data.redacted))
        /\ \A i \in 1..Len(page.report) : page.report[i].label \in ReportLabels

\* a report on an outcome whose text got shorter
C17_Witness ==
    /\ HasReport
    /\ Len(data.redacted) < Len(doc)
    /\ LinesLabelled("Processed length") # {}

----------------------------------------------------------------------------
(* The scenarios of the sanitizer (Spec) *)

\* "Contact me at jane@example.com or 555-123-4567"
Scenario1 ==
    <<"C","o","n","t","a","c","t"," ","m","e"," ","a","t"," ","j","a","n","e","@","e","x","a","m","p","l","e",".","c","o","m"," ","o","r"," ","5","5","5","-","1","2","3","-","4","5","6","7">>
\* "My card is 4111 1111 1111 1111"
Scenario2 ==
    <<"M","y"," ","c","a","r","d"," ","i","s"," ","4","1","1","1"," ","1","1","1","1"," ","1","1","1","1"," ","1","1","1","1">>
\* "John Smith met John Smith at 123 Main Street, 90210"
Scenario3 ==
    <<"J","o","h","n"," ","S","m","i","t","h"," ","m","e","t"," ","J","o","h","n"," ","S","m","i","t","h"," ","a","t"," ","1","2","3"," ","M","a","i","n"," ","S","t","r","e","e","t",","," ","9","0","2","1","0">>

\* the calls made with the given text at the given level
CallsOf(text, level) ==
    {k \in Calls : calls[k].text = text /\ calls[k].level = level}

\* how often piece occurs in t
Occurrences(t, piece) ==
    Cardinality({i \in 1..(Len(t) - Len(piece) + 1) :
                    SubSeq(t, i, i + Len(piece) - 1) = piece})

EmailsIn(text) == SeqRange(FindAll(EmailRe, text))
HasDigit(m) == \E i \in 1..Len(m) : m[i] \in Digit
CardTexts == {Scenario2, CardAndMail}

\* C19, as claimed: at low a card number in four groups counts once as a
\* credit card and not as a phone number, the e-mail count is 0 and every
\* e-mail address of the input is in the redacted text unchanged.
C19_LowKeepsEveryEmail ==
    \A k \in Calls :
        calls[k].level = "low" =>
            /\ calls[k].text \in CardTexts =>
                   Removed(k)["credit_cards"] = 1 /\ Removed(k)["phone_numbers"] = 0
            /\ Removed(k)["emails"] = 0
            /\ \A m \in EmailsIn(calls[k].text) : ContainsText(calls[k].out.content, m)

\* C19, amended: at low a card number in four groups counts once as a credit
\* card and not as a phone number, the e-mail rule is not applied (count 0)
\* and every e-mail address without a digit is in the redacted text
\* unchanged; digits inside an address may be replaced by the phone or card
\* rule.
C19_LowKeepsEmailsWithoutDigits ==
    \A k \in Calls :
        calls[k].level = "low" =>
            /\ calls[k].text \in CardTexts =>
                   Removed(k)["credit_cards"] = 1 /\ Removed(k)["phone_numbers"] = 0
            /\ Removed(k)["emails"] = 0
            /\ "emails" \notin AppliedSet(k)
            /\ \A m \in EmailsIn(calls[k].text) :
                   ~HasDigit(m) => ContainsText(calls[k].out.content, m)

\* a text with a card number and an e-mail address was sanitized at low
C19_Witness ==
    \E k \in CallsOf(CardAndMail, "low") :
        /\ EmailsIn(calls[k].text) # {}
        /\ Removed(k)["credit_cards"] = 1

NameToken == <<"[","N","A","M","E","]">>
John == <<"J","o","h","n">>
JohnSmith == <<"J","o","h","n"," ","S","m","i","t","h">>

----------------------------------------------------------------------------
(* Addresses at high (Spec) *)

AddressToken == <<"[","A","D","D","R","E","S","S","]">>
\* the street addresses in a text: what the address rule matches in it
AddressesIn(text) == SeqRange(FindAll(AddressRe, text))

\* C21: at high every street address of the input (digits, words, street
\* suffix) is replaced by the address token and counted under addresses, and
\* in scenario 3 neither the house number 123, the street name Main Street
\* nor the postal code 90210 is left in the redacted text.
C21_AddressesAndZipRedacted ==
    /\ \A k \in Calls :
           calls[k].level = "high" =>
               \A m \in AddressesIn(calls[k].text) :
                   /\ ~ContainsText(calls[k].out.content, m)
                   /\ Removed(k)["addresses"] >= 1
    /\ \A k \in CallsOf(Scenario3, "high") :
           /\ ~ContainsText(calls[k].out.content, <<"1","2","3">>)
           /\ ~ContainsText(calls[k].out.content, <<"M","a","i","n"," ","S","t","r","e","e","t">>)
           /\ ~ContainsText(calls[k].out.content, <<"9","0","2","1","0">>)

----------------------------------------------------------------------------
(* Degenerate input (Spec) *)

\* the text is empty or holds only white space
IsBlank(text) == \A i \in 1..Len(text) : text[i] \in Space
\* no rule of the level matches anything in the text
NoMatchIn(text, level) ==
    \A j \in 1..Len(Patterns(level)) : FindAll(Patterns(level)[j].re, text) = <<>>

\* C22: sanitizing an empty or white-space-only text, or a text in which no
\* rule of the level matches, never raises: the call returns the text
\* unchanged with every category count 0.
C22_BlankOrUnmatchedIsNoOp ==
    \A k \in Calls :
        (IsBlank(calls[k].text) \/ NoMatchIn(calls[k].text, calls[k].level)) =>
            /\ calls[k].raised = ""
            /\ calls[k].out.content = calls[k].text
            /\ Removed(k) = [c \in Categories |-> 0]
            /\ Info(k).original_length = Len(calls[k].text)
            /\ Info(k).sanitized_length = Len(calls[k].text)

\* the empty text was sanitized at high, and so was white space
C22_Witness ==
    \E k \in Calls :
        /\ calls[k].level = "high"
        /\ IsBlank(calls[k].text)
        /\ calls[k].out.applied # <<>>

----------------------------------------------------------------------------
(* The order of the rules (Spec) *)

\* the order the specification gives the rules
SpecifiedOrder ==
    <<"credit_cards", "phone_numbers", "emails", "ssns", "names", "addresses">>
PlaceIn(order, c) == CHOOSE i \in 1..Len(order) : order[i] = c
\* category a ran before category b in call k
RanBefore(k, a, b) ==
    \E i, j \in 1..Len(calls[k].out.applied) :
        i < j /\ calls[k].out.applied[i] = a /\ calls[k].out.applied[j] = b

\* C23: in every call the rules run in the relative order credit_cards,
\* phone_numbers, emails, ssns, names, addresses, and two rules that both
\* run at two levels run in the same relative order at both.
C23_FixedRuleOrder ==
    /\ \A k \in Calls : \A a, b \in Categories :
           RanBefore(k, a, b) => PlaceIn(SpecifiedOrder, a) < PlaceIn(SpecifiedOrder, b)
    /\ \A k1, k2 \in Calls : \A a, b \in Categories :
           (RanBefore(k1, a, b) /\ {a, b} \subseteq AppliedSet(k2)) => RanBefore(k2, a, b)

----------------------------------------------------------------------------
(* The tokens in the redacted text (Spec) *)

\* the token of a category: the replacement of its rule
TokenOf(c) ==
    LET all == Patterns("high")
    IN  all[CHOOSE j \in 1..Len(all) : all[j].category = c].replacement
\* the text holds no token
TokenFree(text) == \A c \in Categories : ~ContainsText(text, TokenOf(c))

\* C24: when the input holds no token text, every token a rule puts in is
\* intact in the redacted text the call returns: for each category the
\* number of its tokens in the output equals the number of replacements its
\* rule made and equals the category's count.
C24_TokensStayIntact ==
    \A k \in Calls :
        TokenFree(calls[k].text) =>
            \A c \in Categories :
                /\ Occurrences(calls[k].out.content, TokenOf(c)) = calls[k].out.subs[c]
                /\ Occurrences(calls[k].out.content, TokenOf(c)) = Removed(k)[c]

\* a call in which rules ran on a text that already held an earlier rule's
\* token: the e-mail rule, then the phone rule, then the rest of the high list
C24_Witness ==
    \E k \in Calls :
        /\ calls[k].level = "high"
        /\ TokenFree(calls[k].text)
        /\ Removed(k)["emails"] >= 1
        /\ Removed(k)["phone_numbers"] >= 1
        /\ calls[k].out.applied[Len(calls[k].out.applied)] = "addresses"

----------------------------------------------------------------------------
(* What a call leaves alone (Spec) *)

\* what a call returns apart from the time it was made at
Timeless(out) ==
    [content |-> out.content,
     sanitization_level |-> out.info.sanitization_level,
     original_length |-> out.info.original_length,
     sanitized_length |-> out.info.sanitized_length,
     removed_items |-> out.info.removed_items]

----------------------------------------------------------------------------
(* A failed request to the backend (PipelineSpec) *)

\* the result carries the texts of analyze_document's except branch
CarriesFailure(result) ==
    /\ result.summary = ErrorSummary
    /\ result.executive_summary = PartiallyFailed
\* the analysis results a file of the store holds
ResultsIn(file) ==
    IF "analyses" \in DOMAIN file.record
    THEN SeqRange(file.record.analyses)
    ELSE {file.record}
\* the last save call
LastSave == saves[Len(saves)]

----------------------------------------------------------------------------
(* Extraction and process_multiple_documents: BatchSpec *)

\* how many files are uploaded at once, at most
MaxUploads == 2

\* str.strip()
Strip(t) ==
    LET inked == {i \in 1..Len(t) : t[i] \notin Space}
    IN  IF inked = {} THEN <<>> ELSE SubSeq(t, Min(inked), Max(inked))

\* f"\n--- Page {n} ---\n" and f"\n--- Slide {n} ---\n"
PageHeader(n) ==
    <<"\n","-","-","-"," ","P","a","g","e"," ">> \o <<ToString(n)>> \o <<" ","-","-","-","\n">>
SlideHeader(n) ==
    <<"\n","-","-","-"," ","S","l","i","d","e"," ">> \o <<ToString(n)>> \o <<" ","-","-","-","\n">>

\* _process_pdf's loop over the pages: texts[n] is what extract_text gives
\* for page n
RECURSIVE PdfContent(_, _)
PdfContent(texts, n) ==
    IF n > Len(texts) THEN <<>>
    ELSE (IF texts[n] # <<>> THEN PageHeader(n) \o texts[n] \o <<"\n">> ELSE <<>>)
             \o PdfContent(texts, n + 1)

\* what _process_pdf returns
ProcessPdf(texts) ==
    [content |-> Strip(PdfContent(texts, 1)), pages |-> Len(texts)]

\* _process_docx's loop over the paragraphs: texts[n] is paragraph n's text
RECURSIVE DocxContent(_, _)
DocxContent(texts, n) ==
    IF n > Len(texts) THEN <<>>
    ELSE (IF Strip(texts[n]) # <<>> THEN texts[n] \o <<"\n","\n">> ELSE <<>>)
             \o DocxContent(texts, n + 1)
RECURSIVE DocxParagraphs(_, _)
DocxParagraphs(texts, n) ==
    IF n > Len(texts) THEN <<>>
    ELSE (IF Strip(texts[n]) # <<>> THEN <<Strip(texts[n])>> ELSE <<>>)
             \o DocxParagraphs(texts, n + 1)

\* what _process_docx returns
ProcessDocx(texts) ==
    [content |-> Strip(DocxContent(texts, 1)),
     paragraphs |-> DocxParagraphs(texts, 1)]

\* _process_pptx's loop over the slides: texts[n] is the text of the one
\* shape of slide n, empty when the shape has no text
SlideText(texts, n) ==
    SlideHeader(n) \o (IF texts[n] # <<>> THEN texts[n] \o <<"\n">> ELSE <<>>)
RECURSIVE PptxContent(_, _)
PptxContent(texts, n) ==
    IF n > Len(texts) THEN <<>>
    ELSE (IF Strip(SlideText(texts, n)) # <<>> THEN SlideText(texts, n) \o <<"\n">> ELSE <<>>)
             \o PptxContent(texts, n + 1)
RECURSIVE PptxSlides(_, _)
PptxSlides(texts, n) ==
    IF n > Len(texts) THEN <<>>
    ELSE (IF Strip(SlideText(texts, n)) # <<>> THEN <<SlideText(texts, n)>> ELSE <<>>)
             \o PptxSlides(texts, n + 1)

\* what _process_pptx returns
ProcessPptx(texts) ==
    [content |-> Strip(PptxContent(texts, 1)),
     slide_count |-> Len(texts),
     slides_content |-> PptxSlides(texts, 1)]

\* dict.update: the keys of extra are added to base or replace its values
Update(base, extra) ==
    [k \in DOMAIN base \cup DOMAIN extra |->
        IF k \in DOMAIN extra THEN extra[k] ELSE base[k]]

\* " jane@x.co" and a paragraph of one blank
MailIndented == <<" ","j","a","n","e","@","x",".","c","o">>
Blank == <<" ">>

\* "555-123-4567"
PhoneNumber == <<"5","5","5","-","1","2","3","-","4","5","6","7">>

\* what the parsing library finds in a file it can read: one page, paragraph
\* or slide holding a phone number; or two, the first an indented e-mail
\* address, the second blank
UploadTexts == {<<PhoneNumber>>, <<MailIndented, Blank>>}
UploadNames == Filenames \cup {"deck.pptx"}

\* the uploaded files: name, whether the parsing library reads the bytes
\* ("ok") or raises on them ("corrupt"), and the texts it finds
Uploads ==
    {u \in [name : UploadNames, parse : {"ok", "corrupt"},
             texts : UploadTexts \cup {<<>>}] :
        IF FileExtension(u.name) \in SupportedFormats
        THEN u.texts = <<>> <=> u.parse = "corrupt"
        ELSE u.parse = "ok" /\ u.texts = <<>>}

\* the result of the extractor of the file's type, without its content
Extracted(u) ==
    IF FileExtension(u.name) = "pdf" THEN ProcessPdf(u.texts)
    ELSE IF FileExtension(u.name) = "docx" THEN ProcessDocx(u.texts)
    ELSE ProcessPptx(u.texts)
ExtractedExtras(u) ==
    [k \in DOMAIN Extracted(u) \ {"content"} |-> Extracted(u)[k]]

\* process_document(uploaded_file, sanitization_level) on upload u: what it
\* raises ("" when it returns), the document_data it returns, and whether
\* the extractor's temporary file is still there afterwards.  The extension
\* is checked before any extractor runs; an extractor makes its temporary
\* file, then parses it, and unlinks it after the parsing.
ProcessUpload(u, level, at, proc) ==
    IF FileExtension(u.name) \notin proc.supported_formats
    THEN [raised |-> "ValueError", data |-> NoData, leaves_tmp |-> FALSE]
    ELSE IF u.parse = "corrupt"
    THEN [raised |-> "Exception", data |-> NoData, leaves_tmp |-> TRUE]
    ELSE [raised |-> "",
          data |-> Update(DocumentData(u.name, Extracted(u).content,
                              IF proc.enable_privacy THEN level ELSE "none", at),
                          ExtractedExtras(u)),
          leaves_tmp |-> FALSE]

\* the loop of process_multiple_documents stopping at the first file that
\* fails
RECURSIVE ProcessedDocumentsStoppingAtError(_, _, _, _, _)
ProcessedDocumentsStoppingAtError(files, n, level, at, proc) ==
    IF n > Len(files) THEN [documents |-> <<>>, printed |-> <<>>, tmp |-> {}]
    ELSE LET r == ProcessUpload(files[n], level, at, proc)
             rest == ProcessedDocumentsStoppingAtError(files, n + 1, level, at, proc)
         IN  IF r.raised = ""
             THEN [documents |-> <<[r.data EXCEPT !.filename = files[n].name]>> \o rest.documents,
                   printed |-> rest.printed,
                   tmp |-> rest.tmp]
             ELSE [documents |-> <<>>,
                   printed |-> <<[name |-> files[n].name, error |-> r.raised]>>,
                   tmp |-> IF r.leaves_tmp THEN {n} ELSE {}]

\* the loop of process_multiple_documents from file n on: the list it
\* builds, the errors it prints and the temporary files left behind (by the
\* number of the file).  A document_data is a non-empty dictionary, so
\* `if doc_data` holds for every file that did not raise.
RECURSIVE ProcessedDocuments(_, _, _, _, _)
ProcessedDocuments(files, n, level, at, proc) ==
    IF n > Len(files) THEN [documents |-> <<>>, printed |-> <<>>, tmp |-> {}]
    ELSE LET r == ProcessUpload(files[n], level, at, proc)
             rest == ProcessedDocuments(files, n + 1, level, at, proc)
         IN  [documents |->
                  (IF r.raised = ""
                   THEN <<[r.data EXCEPT !.filename = files[n].name]>>
                   ELSE <<>>) \o rest.documents,
              printed |->
                  (IF r.raised = ""
                   THEN <<>>
                   ELSE <<[name |-> files[n].name, error |-> r.raised]>>) \o rest.printed,
              tmp |-> (IF r.leaves_tmp THEN {n} ELSE {}) \cup rest.tmp]

UploadLists == UNION {[1..n -> Uploads] : n \in 0..MaxUploads}

BInit ==
    /\ doc = <<>>
    /\ fname = <<>>
    /\ now = 0
    /\ calls = <<>>
    /\ data = NoData
    /\ analysis = NoAnalysis
    /\ store = <<>>
    /\ saves = <<>>
    /\ raised = ""
    /\ page = NoPage
    /\ outcome = NoOutcome
    /\ \E enable_privacy \in BOOLEAN : processor = NewProcessor(enable_privacy)
    /\ uploads \in UploadLists
    /\ batch = NoBatch
    /\ tmpfiles = {}

\* processor.process_multiple_documents(uploads, level)
ProcessMultipleDocuments(level) ==
    /\ batch = NoBatch
    /\ LET r == ProcessedDocuments(uploads, 1, level, now, processor)
       IN  /\ batch' = [kind |-> "returned", level |-> level,
                        documents |-> r.documents, printed |-> r.printed]
           /\ tmpfiles' = tmpfiles \cup r.tmp
    /\ now' = now + 1
    /\ raised' = ""
    /\ UNCHANGED <<doc, fname, calls, data, analysis, store, saves, page, outcome>>
    /\ UNCHANGED <<processor, uploads>>

\* the levels process_multiple_documents is called with
BatchLevels == {"none", "medium"}

BNext == \E level \in BatchLevels : ProcessMultipleDocuments(level)

BatchSpec == BInit /\ [][BNext]_vars

----------------------------------------------------------------------------
(* Properties of process_multiple_documents (BatchSpec) *)

\* the file is of a supported type and the parsing library reads it
Succeeds(u) == FileExtension(u.name) \in SupportedFormats /\ u.parse = "ok"
\* the places in the upload list of the files that succeed
SucceedingPlaces == {i \in 1..Len(uploads) : Succeeds(uploads[i])}
\* the place of the j-th file that succeeds
PlaceOf(j) ==
    CHOOSE i \in SucceedingPlaces :
        Cardinality({k \in SucceedingPlaces : k <= i}) = j

\* C30: process_multiple_documents returns for every list of uploads,
\* raising nothing; the list it returns holds the document data of exactly
\* the files that are of a supported type and can be parsed, in the order of
\* the uploads, each with its own file name and as process_document gives it
\* for that file alone; every other file is skipped and reported.
C30_BatchSkipsFailingFiles ==
    batch # NoBatch =>
        /\ batch.kind = "returned"
        /\ raised = ""
        /\ Len(batch.documents) = Cardinality(SucceedingPlaces)
        /\ \A j \in 1..Len(batch.documents) :
               LET u == uploads[PlaceOf(j)]
               IN  /\ batch.documents[j].filename = u.name
                   /\ batch.documents[j].type = FileExtension(u.name)
                   /\ batch.documents[j] =
                          ProcessUpload(u, batch.level, now - 1, processor).data
        /\ Len(batch.printed) = Len(uploads) - Cardinality(SucceedingPlaces)
        /\ \A i \in 1..Len(uploads) :
               ~Succeeds(uploads[i]) =>
                   \E j \in 1..Len(batch.printed) : batch.printed[j].name = uploads[i].name

\* a list whose first file fails and whose second file succeeds was processed
C30_Witness ==
    /\ batch # NoBatch
    /\ Len(uploads) = 2
    /\ ~Succeeds(uploads[1])
    /\ Succeeds(uploads[2])
    /\ Len(batch.documents) = 1
    /\ batch.documents[1].filename = uploads[2].name


\* the fields of a document_data that hold text of the document
TextFields(d) ==
    {d.content}
        \cup (IF "paragraphs" \in DOMAIN d THEN SeqRange(d.paragraphs) ELSE {})
        \cup (IF "slides_content" \in DOMAIN d THEN SeqRange(d.slides_content) ELSE {})

\* C27: when process_document ran with privacy enabled and a level other
\* than none, no text-bearing field of the document data it returned
\* (content, paragraphs, slides_content) holds a text that the level's rules
\* matched and removed from content.
C27_EveryTextFieldSanitized ==
    (batch # NoBatch /\ processor.enable_privacy /\ batch.level # "none") =>
        \A j \in 1..Len(batch.documents) :
            \A m \in batch.documents[j].matched :
                \A t \in TextFields(batch.documents[j]) : ~ContainsText(t, m)

\* C28: whenever an extractor has finished, by returning or by raising, its
\* temporary file is gone: no temporary file exists between two operations.
C28_NoTemporaryFileLeft == tmpfiles = {}

----------------------------------------------------------------------------
(* Saves that fail (PipelineSpec) *)

\* C29: a save that returns no key leaves the store as it was: no file is
\* added, and no file that was there has other contents than before.
C29_FailedSaveLeavesStoreUnchanged ==
    [][(Len(saves') > Len(saves) /\ LastSave'.returned = NoData) =>
           /\ DOMAIN store' = DOMAIN store
           /\ \A p \in DOMAIN store : store'[p] = store[p]]_vars

====
